---- MODULE Spec2Model ----
(***************************************************************************)
(* Model of the QGIS expression function st_gridref                        *)
(* (profiles/ywt_standard/python/expressions/st_gridref.py): conversion of *)
(* a British National Grid centroid to an Ordnance Survey grid reference.  *)
(*                                                                         *)
(* Python strings are modelled as sequences of one-character strings, so   *)
(* that padding, slicing, stripping and joining are computed character by  *)
(* character as the code computes them.  The geometry is modelled by what  *)
(* the function reads of it: whether it is null, and the integer centroid  *)
(* coordinates int(centroid.x()), int(centroid.y()) in EPSG:27700.         *)
(***************************************************************************)
EXTENDS Integers, Sequences, FiniteSets

(* ---------------------------- bounds ----------------------------------- *)

\* Largest 100km easting index of the sampled centroids (grid extent: 0..6).
MaxE100k == 6
\* Largest 100km northing index of the sampled centroids (grid extent: 0..12).
MaxN100k == 12
\* max_figs is drawn from (0 - FigsMargin) .. (10 + FigsMargin).
FigsMargin == 2

\* Residual eastings / northings (metres inside the 100km square) sampled in
\* every square: zero, fewer digits than figs, trailing zeros of different
\* counts, digits that rounding would change, and the largest residual.
EResiduals == {0, 42, 32100, 32199, 90000, 99999}
NResiduals == {0, 70, 5000, 81300, 99999}

Eastings  == {k * 100000 + r : k \in 0..MaxE100k, r \in EResiduals}
Northings == {k * 100000 + r : k \in 0..MaxN100k, r \in NResiduals}
MaxFigsValues == (0 - FigsMargin)..(10 + FigsMargin)

(* ------------------------- Python primitives --------------------------- *)

Alphabet == << "A","B","C","D","E","F","G","H","I","J","K","L","M",
               "N","O","P","Q","R","S","T","U","V","W","X","Y","Z" >>
DigitChars == << "0","1","2","3","4","5","6","7","8","9" >>

Min(a, b) == IF a < b THEN a ELSE b

\* chr(ord('A') + l), for the code points of the capital letters.
ChrFromA(l) == Alphabet[l + 1]

\* str(v) of a non-negative int: its decimal digits, no leading zeros.
RECURSIVE Str(_)
Str(v) == IF v < 10 THEN << DigitChars[v + 1] >>
          ELSE Str(v \div 10) \o << DigitChars[(v % 10) + 1] >>

\* s.zfill(width): pad on the left with '0' up to width; never shortens.
ZFill_NoPad(s, width) == s
RECURSIVE ZFill(_, _)
ZFill(s, width) == IF Len(s) >= width THEN s
                   ELSE ZFill(<< "0" >> \o s, width)

\* s[:k] for k >= 0.
Take(s, k) == SubSeq(s, 1, Min(k, Len(s)))

\* s[:-k] for k >= 0; note that s[:-0] is s[:0], the empty string.
SliceToNeg(s, k) == IF k = 0 THEN << >> ELSE SubSeq(s, 1, Len(s) - k)

\* s.rstrip('0')
RECURSIVE RStripZeros(_)
RStripZeros(s) == IF Len(s) > 0 /\ s[Len(s)] = "0"
                  THEN RStripZeros(SubSeq(s, 1, Len(s) - 1)) ELSE s

\* s.strip(): remove leading and trailing whitespace.
RECURSIVE LStrip(_)
LStrip(s) == IF Len(s) > 0 /\ s[1] = " " THEN LStrip(Tail(s)) ELSE s
RECURSIVE RStrip(_)
RStrip(s) == IF Len(s) > 0 /\ s[Len(s)] = " "
             THEN RStrip(SubSeq(s, 1, Len(s) - 1)) ELSE s
Strip_LeftOnly(s) == LStrip(s)
Strip(s) == LStrip(RStrip(s))

(* --------------------------- st_gridref -------------------------------- *)

ErrorMessage ==
    "ERROR: max_figs must be an even number between 0 and 10"

\* The validation condition of max_figs.
MaxFigsInvalid_NoUpper(mf) == mf % 2 # 0 \/ mf < 0
MaxFigsInvalid(mf) == mf % 2 # 0 \/ mf < 0 \/ mf > 10

\* math.floor(v / 1e5): the 100km grid index.
Floor100k_Round(v) == (v + 50000) \div 100000
Floor100k(v) == v \div 100000

\* Numeric equivalents of the grid letters.
L1_NoEasting(e100k, n100k) == (19 - n100k) - ((19 - n100k) % 5) + 2
L1(e100k, n100k) ==
    (19 - n100k) - ((19 - n100k) % 5) + ((e100k + 10) \div 5)
L2(e100k, n100k) == (((19 - n100k) * 5) % 25) + (e100k % 5)

\* Compensate for the skipped 'I'.
SkipI_Late(l) == IF l > 8 THEN l + 1 ELSE l
SkipI(l) == IF l > 7 THEN l + 1 ELSE l

LetterPair(e100k, n100k) ==
    << ChrFromA(SkipI(L1(e100k, n100k))) >>
       \o << ChrFromA(SkipI(L2(e100k, n100k))) >>

\* math.floor(v % 1e5): strip the 100km grid index.
Residual(v) == v % 100000

\* str(v).zfill(5)[:figs]
PadTake_Round(v, figs) ==
    LET unit == IF figs = 0 THEN 100000
                ELSE IF figs = 1 THEN 10000
                ELSE IF figs = 2 THEN 1000
                ELSE IF figs = 3 THEN 100
                ELSE IF figs = 4 THEN 10 ELSE 1
    IN  Take(ZFill(Str((v + (unit \div 2)) \div unit), figs), figs)
PadTake(v, figs) == Take(ZFill(Str(v), 5), figs)

\* Variable figure precision: strip the common trailing zeros.
VarFigs_Independent(ec, nc) == << RStripZeros(ec), RStripZeros(nc) >>
VarFigs_NoGuard(ec, nc) ==
    LET nzeros == Min(Len(ec) - Len(RStripZeros(ec)),
                      Len(nc) - Len(RStripZeros(nc)))
    IN  << SliceToNeg(ec, nzeros), SliceToNeg(nc, nzeros) >>
VarFigs(ec, nc) ==
    LET e_zeros == Len(ec) - Len(RStripZeros(ec))
        n_zeros == Len(nc) - Len(RStripZeros(nc))
        nzeros  == Min(e_zeros, n_zeros)
    IN  IF nzeros > 0
        THEN << SliceToNeg(ec, nzeros), SliceToNeg(nc, nzeros) >>
        ELSE << ec, nc >>

\* Format output.
FormatOutput_NoStrip(lp, ec, nc, spaces) ==
    IF spaces THEN lp \o << " " >> \o ec \o << " " >> \o nc
    ELSE lp \o ec \o nc
FormatOutput(lp, ec, nc, spaces) ==
    IF spaces THEN Strip(lp \o << " " >> \o ec \o << " " >> \o nc)
    ELSE lp \o ec \o nc

\* The body of st_gridref after the null check, for a centroid (cx, cy):
\* the local variables at the return statement.
GridRef(cx, cy, mf, vf, spaces) ==
    LET ek   == Floor100k(cx)
        nk   == Floor100k(cy)
        lp   == LetterPair(ek, nk)
        figs == mf \div 2
        ec0  == PadTake(Residual(cx), figs)
        nc0  == PadTake(Residual(cy), figs)
        trimmed == IF vf THEN VarFigs(ec0, nc0) ELSE << ec0, nc0 >>
    IN  [ e100k |-> ek, n100k |-> nk, letter_pair |-> lp,
          e_char |-> trimmed[1], n_char |-> trimmed[2],
          gridref |-> FormatOutput(lp, trimmed[1], trimmed[2], spaces) ]

(* ----------------------------- state ----------------------------------- *)

VARIABLES
    pc,               \* "call": arguments bound; "done": function returned
    geomNull,         \* geom is None or geom.isNull()
    x, y,             \* int(centroid.x()), int(centroid.y())
    max_figs, var_figs, include_spaces,      \* the arguments
    evalErrorString,  \* parent's evaluation error string ("" = not set)
    result,           \* [isNone, str]: the returned value
    e100k, n100k, letter_pair, e_char, n_char   \* locals at return

vars == << pc, geomNull, x, y, max_figs, var_figs, include_spaces,
           evalErrorString, result, e100k, n100k, letter_pair,
           e_char, n_char >>

args == << geomNull, x, y, max_figs, var_figs, include_spaces >>
locals == << e100k, n100k, letter_pair, e_char, n_char >>

PyNone == [isNone |-> TRUE, str |-> << >>]
PyStr(s) == [isNone |-> FALSE, str |-> s]

Init ==
    /\ pc = "call"
    /\ geomNull \in BOOLEAN
    /\ x \in (IF geomNull THEN {0} ELSE Eastings)
    /\ y \in (IF geomNull THEN {0} ELSE Northings)
    /\ max_figs \in MaxFigsValues
    /\ var_figs \in BOOLEAN
    /\ include_spaces \in BOOLEAN
    /\ evalErrorString = ""
    /\ result = PyNone
    /\ e100k = 0 /\ n100k = 0
    /\ letter_pair = << >> /\ e_char = << >> /\ n_char = << >>

\* One evaluation of st_gridref(geom, max_figs, var_figs, include_spaces).
st_gridref ==
    /\ pc = "call"
    /\ pc' = "done"
    /\ UNCHANGED args
    /\ IF MaxFigsInvalid(max_figs)
       THEN /\ evalErrorString' = ErrorMessage
            /\ result' = PyNone
            /\ UNCHANGED locals
       ELSE IF geomNull
       THEN /\ result' = PyNone
            /\ UNCHANGED << evalErrorString, e100k, n100k, letter_pair,
                            e_char, n_char >>
       ELSE LET r == GridRef(x, y, max_figs, var_figs, include_spaces)
            IN  /\ e100k' = r.e100k
                /\ n100k' = r.n100k
                /\ letter_pair' = r.letter_pair
                /\ e_char' = r.e_char
                /\ n_char' = r.n_char
                /\ result' = PyStr(r.gridref)
                /\ UNCHANGED evalErrorString

Next == st_gridref

Spec == Init /\ [][Next]_vars

(* ------------------- vocabulary of the properties ---------------------- *)

\* The letters an Ordnance Survey grid square may carry: A-Z without I.
GridLetters == {Alphabet[i] : i \in 1..26} \ {"I"}
IsDigit(c) == \E d \in 1..10 : DigitChars[d] = c
DigitVal(c) == CHOOSE d \in 0..9 : DigitChars[d + 1] = c

\* The number a string of decimal digits denotes (0 for the empty string).
RECURSIVE ParseInt(_)
ParseInt(s) == IF Len(s) = 0 THEN 0
               ELSE 10 * ParseInt(SubSeq(s, 1, Len(s) - 1)) + DigitVal(s[Len(s)])

RECURSIVE Pow10(_)
Pow10(k) == IF k = 0 THEN 1 ELSE 10 * Pow10(k - 1)

RemoveSpaces(s) == SelectSeq(s, LAMBDA c : c # " ")

RECURSIVE TrailingZeros(_)
TrailingZeros(s) == IF Len(s) > 0 /\ s[Len(s)] = "0"
                    THEN 1 + TrailingZeros(SubSeq(s, 1, Len(s) - 1)) ELSE 0

AllDigits(s)  == \A i \in 1..Len(s) : IsDigit(s[i])
AllLetters(s) == \A i \in 1..Len(s) : s[i] \in GridLetters

Done == pc = "done"
\* The call returned a grid reference string.
Returned == Done /\ ~result.isNone

TypeOK ==
    /\ pc \in {"call", "done"}
    /\ geomNull \in BOOLEAN /\ var_figs \in BOOLEAN
    /\ include_spaces \in BOOLEAN
    /\ x \in Nat /\ y \in Nat /\ max_figs \in Int
    /\ evalErrorString \in {"", ErrorMessage}
    /\ result.isNone \in BOOLEAN

(* ------------------------------ C1 ------------------------------------- *)

\* C1: st_gridref sets the evaluation error string and returns no string
\* exactly when max_figs is odd, negative or greater than 10, whatever the
\* other arguments are (a null geometry included); for max_figs in
\* {0,2,4,6,8,10} and a non-null geometry it sets no error and returns a
\* string.
C1_ErrorIffInvalidMaxFigs ==
    Done =>
      /\ (evalErrorString # "") <=>
            (max_figs % 2 = 1 \/ max_figs < 0 \/ max_figs > 10)
      /\ (evalErrorString # "") =>
            (evalErrorString = ErrorMessage /\ result.isNone)
      /\ (max_figs \in {0, 2, 4, 6, 8, 10} /\ ~geomNull) =>
            (evalErrorString = "" /\ ~result.isNone)

\* max_figs = 5 with a null geometry: the error is reported, not the null.
C1_Witness ==
    /\ Done /\ geomNull /\ max_figs = 5
    /\ evalErrorString = ErrorMessage /\ result.isNone

(* ------------------------------ C2 ------------------------------------- *)

\* C2: with max_figs=6, var_figs=false, include_spaces=false the output is
\* two capital letters other than 'I' followed by exactly six digits.
C2_SixFigurePattern ==
    (Returned /\ max_figs = 6 /\ ~var_figs /\ ~include_spaces) =>
      /\ Len(result.str) = 8
      /\ AllLetters(SubSeq(result.str, 1, 2))
      /\ AllDigits(SubSeq(result.str, 3, 8))

\* A square whose first letter index is 8 before the skip-I correction.
C2_Witness ==
    /\ Returned /\ max_figs = 6 /\ ~var_figs /\ ~include_spaces
    /\ L1(e100k, n100k) = 8 /\ result.str[1] = "J"
    /\ Len(result.str) = 8

(* ------------------------------ C3 ------------------------------------- *)

\* C3: with max_figs=0 the output is the two-letter grid square code only,
\* for every var_figs and include_spaces (the separators are trimmed away).
C3_ZeroFiguresIsLetterPair ==
    (Done /\ ~geomNull /\ max_figs = 0) =>
      /\ ~result.isNone
      /\ Len(result.str) = 2
      /\ AllLetters(result.str)
      /\ result.str = LetterPair(x \div 100000, y \div 100000)

C3_Witness ==
    /\ Returned /\ max_figs = 0 /\ include_spaces /\ var_figs
    /\ result.str = << "T", "Q" >>

(* ------------------------------ C4 ------------------------------------- *)

\* C4: with max_figs=10, var_figs=false, include_spaces=false the output is
\* 2 letters and 10 digits; the first five digits read as a number are
\* e mod 100000 and the last five are n mod 100000.
C4_TenFiguresLossless ==
    (Returned /\ max_figs = 10 /\ ~var_figs /\ ~include_spaces) =>
      /\ Len(result.str) = 12
      /\ AllLetters(SubSeq(result.str, 1, 2))
      /\ AllDigits(SubSeq(result.str, 3, 12))
      /\ ParseInt(SubSeq(result.str, 3, 7)) = x % 100000
      /\ ParseInt(SubSeq(result.str, 8, 12)) = y % 100000

\* Residuals with fewer than five digits, which need the zero padding.
C4_Witness ==
    /\ Returned /\ max_figs = 10 /\ ~var_figs /\ ~include_spaces
    /\ x % 100000 = 42 /\ y % 100000 = 70
    /\ SubSeq(result.str, 3, 12) =
          << "0", "0", "0", "4", "2", "0", "0", "0", "7", "0" >>

(* ------------------------------ C5 ------------------------------------- *)

\* C5: the include_spaces=true output with its spaces removed equals the
\* include_spaces=false output for the same other arguments, and it has no
\* leading space, no trailing space and no two consecutive spaces.
C5_SpacesOnlySeparate ==
    (Returned /\ include_spaces) =>
      /\ RemoveSpaces(result.str) =
            GridRef(x, y, max_figs, var_figs, FALSE).gridref
      /\ result.str[1] # " "
      /\ result.str[Len(result.str)] # " "
      /\ \A i \in 1..(Len(result.str) - 1) :
            ~(result.str[i] = " " /\ result.str[i + 1] = " ")

\* Both digit groups trimmed away at max_figs=10: only the letters remain.
C5_Witness ==
    /\ Returned /\ include_spaces /\ var_figs /\ max_figs = 10
    /\ e_char = << >> /\ n_char = << >>
    /\ Len(result.str) = 2

(* ------------------------------ C6 ------------------------------------- *)

\* C6: the var_figs=true output is never longer than the var_figs=false
\* output for the same inputs, and the same number of trailing digits is
\* trimmed from the easting group and from the northing group, so that the
\* two groups have the same length.
C6_VarFigsShorterAndEven ==
    (Returned /\ var_figs) =>
      LET fixed == GridRef(x, y, max_figs, FALSE, include_spaces)
      IN  /\ Len(result.str) <= Len(fixed.gridref)
          /\ Len(e_char) <= Len(fixed.e_char)
          /\ Len(fixed.e_char) - Len(e_char) =
                Len(fixed.n_char) - Len(n_char)
          /\ Len(e_char) = Len(n_char)

\* "90000" and "05000": four and three trailing zeros, three are trimmed.
C6_Witness ==
    /\ Returned /\ var_figs /\ max_figs = 10
    /\ e_char = << "9", "0" >> /\ n_char = << "0", "5" >>

(* ------------------------------ C7 ------------------------------------- *)

TQ == << "T", "Q" >>

\* C7: for easting 532100, northing 181300 (var_figs=false,
\* include_spaces=false) the 100km indices are 5 and 1, the letter pair is
\* "TQ", and the output is "TQ321813" for max_figs=6, "TQ3281" for
\* max_figs=4 and "TQ" for max_figs=0.
C7_TQExample ==
    (Returned /\ x = 532100 /\ y = 181300 /\ ~var_figs /\ ~include_spaces) =>
      /\ e100k = 5 /\ n100k = 1
      /\ letter_pair = TQ
      /\ max_figs = 6 => result.str = TQ \o << "3", "2", "1", "8", "1", "3" >>
      /\ max_figs = 4 => result.str = TQ \o << "3", "2", "8", "1" >>
      /\ max_figs = 0 => result.str = TQ

C7_Witness ==
    /\ Returned /\ x = 532100 /\ y = 181300 /\ ~var_figs /\ ~include_spaces
    /\ max_figs = 4 /\ Len(result.str) = 6 /\ e100k = 5 /\ n100k = 1

(* ------------------------------ C8 ------------------------------------- *)

EvenFigs == {0, 2, 4, 6, 8, 10}

\* C8: with var_figs=false and figs = max_figs/2 each digit group is a
\* truncation: it is exactly figs digits long and denotes
\* floor(residual / 10^(5-figs)); hence the groups at a lower max_figs are
\* prefixes of the groups at a higher max_figs.
C8_DigitsAreTruncated ==
    (Returned /\ ~var_figs) =>
      LET figs == max_figs \div 2
      IN  /\ Len(e_char) = figs /\ Len(n_char) = figs
          /\ AllDigits(e_char) /\ AllDigits(n_char)
          /\ ParseInt(e_char) = (x % 100000) \div Pow10(5 - figs)
          /\ ParseInt(n_char) = (y % 100000) \div Pow10(5 - figs)
          /\ \A lower \in {m \in EvenFigs : m <= max_figs} :
                LET r == GridRef(x, y, lower, FALSE, include_spaces)
                IN  /\ r.e_char = SubSeq(e_char, 1, lower \div 2)
                    /\ r.n_char = SubSeq(n_char, 1, lower \div 2)

\* Residual 32199 at figs=3 stays "321"; residual 70 gives "000".
C8_Witness ==
    /\ Returned /\ ~var_figs /\ max_figs = 6
    /\ x % 100000 = 32199 /\ e_char = << "3", "2", "1" >>
    /\ y % 100000 = 70 /\ n_char = << "0", "0", "0" >>

(* ------------------------------ C9 ------------------------------------- *)

\* C9: with var_figs=true the number of characters stripped from each digit
\* group is the minimum of the trailing-zero counts of the two truncated
\* strings; only '0' characters are removed; afterwards both groups are
\* empty or at least one does not end in '0'; when both truncated strings
\* are all zeros the output is the letter pair alone.
C9_TrimIsMinTrailingZeros ==
    (Returned /\ var_figs) =>
      LET fixed == GridRef(x, y, max_figs, FALSE, include_spaces)
          ec0 == fixed.e_char
          nc0 == fixed.n_char
          k == Min(TrailingZeros(ec0), TrailingZeros(nc0))
      IN  /\ e_char = SubSeq(ec0, 1, Len(ec0) - k)
          /\ n_char = SubSeq(nc0, 1, Len(nc0) - k)
          /\ \A i \in (Len(e_char) + 1)..Len(ec0) : ec0[i] = "0"
          /\ \A i \in (Len(n_char) + 1)..Len(nc0) : nc0[i] = "0"
          /\ \/ e_char = << >> /\ n_char = << >>
             \/ Len(e_char) > 0 /\ e_char[Len(e_char)] # "0"
             \/ Len(n_char) > 0 /\ n_char[Len(n_char)] # "0"
          /\ (TrailingZeros(ec0) = Len(ec0) /\ TrailingZeros(nc0) = Len(nc0))
                => result.str = letter_pair

\* All-zero residuals at max_figs=10 reduce to the letter pair alone.
C9_Witness ==
    /\ Returned /\ var_figs /\ ~include_spaces /\ max_figs = 10
    /\ x % 100000 = 0 /\ y % 100000 = 0
    /\ result.str = letter_pair /\ Len(letter_pair) = 2

(* ------------------------------ C10 ------------------------------------ *)

\* C10: within the grid extent the two leading letters identify the 100km
\* square and depend on nothing else: they are the letters of another
\* square exactly when that square has the same e100k and n100k, whatever
\* max_figs, var_figs, include_spaces and the residuals are; the first
\* letter is one of S, T, N, O, H, J.
C10_LettersIdentifySquare ==
    Returned =>
      /\ SubSeq(result.str, 1, 2) = letter_pair
      /\ e100k = x \div 100000 /\ n100k = y \div 100000
      /\ \A ek \in 0..MaxE100k, nk \in 0..MaxN100k :
            (LetterPair(ek, nk) = SubSeq(result.str, 1, 2))
               <=> (ek = e100k /\ nk = n100k)
      /\ result.str[1] \in {"S", "T", "N", "O", "H", "J"}

C10_Witness ==
    /\ Returned /\ include_spaces /\ var_figs /\ max_figs = 8
    /\ e100k = 0 /\ n100k = 12 /\ x % 100000 = 99999
    /\ SubSeq(result.str, 1, 2) = << "H", "L" >>

====
